---- MODULE Spec2Model ----
(***************************************************************************)
(* Model of the Perforce prompt orchestrator of src/src/extension.ts: the  *)
(* 'type' command override (edit flow) and the FileSystemWatcher           *)
(* onDidCreate / onDidDelete handlers (add and delete flows), run on the   *)
(* single-threaded event loop of the extension host.                       *)
(*                                                                         *)
(* A step is either one macrotask (an event delivered by the host, a timer *)
(* firing, a dialog or an external command resolving, a change of the      *)
(* environment) or one microtask (the continuation of a handler after an   *)
(* await on an already settled promise).  Microtasks run in FIFO order and *)
(* drain before the next macrotask starts.                                 *)
(***************************************************************************)
EXTENDS Integers, Sequences, FiniteSets, Bags, TLC

\* ------------------------------------------------------------------ bounds
\* handler invocations (async bodies) in flight at once
MaxTasks == 2
\* pending timers of one kind for one path
MaxTimers == 2

\* ------------------------------------------------------- program constants
\* 0o200, the owner write permission bit tested by isReadOnly
OwnerWrite == 128
\* file modes the environment uses: 0o444 (read-only) and 0o644 (writable)
ModeReadOnly == 4 * 64 + 4 * 8 + 4
ModeWritable == 6 * 64 + 4 * 8 + 4
Modes == {ModeReadOnly, ModeWritable}

\* ---------------------------------------------------------------- universe
\* absolute paths as sequences of segments; the root is the empty sequence
Root == <<>>
PathA == <<"ws", "a.txt">>
PathB == <<"ws", "src", "b.txt">>
Paths == {PathA, PathB}
\* the text a keystroke inserts (args of the 'type' command)
Keys == {"x"}
\* what showInformationMessage resolves to; "throw" is a rejected promise
Results == {"Yes", "No", "undefined", "throw"}

VARIABLES
  enabled,        \* perforceExtension.enabled as getConfiguration reads it
  activeEditor,   \* vscode.window.activeTextEditor (document path and scheme)
  files,          \* the paths of the files that exist
  pendingPrompt,  \* the promise of the edit flow in flight, or null
  dismissedFiles, \* the keys of the Map dismissedFiles
  expiryTimers,   \* per path, the pending 100 ms timers deleting its key
  pendingDialogs, \* the Set pendingDialogs
  waiting,        \* async bodies suspended on a dialog, a command or the 500 ms timer
  microtasks,     \* handler bodies whose awaited promise has settled (FIFO)
  delivering,     \* the host is handing the events of one batch to the listeners
  trace           \* the last step: its event, its input, what it did in order

vars == <<enabled, activeEditor, files, pendingPrompt, dismissedFiles,
          expiryTimers, pendingDialogs, waiting, microtasks, delivering, trace>>

\* ------------------------------------------------------------- path helpers
\* path.dirname
dirname(p) == IF p = Root THEN Root ELSE SubSeq(p, 1, Len(p) - 1)
\* filePath.split(/[\\/]/).pop()
fileNameOf(p) == p[Len(p)]

RECURSIVE joinSlash(_)
\* the segments of a relative path joined by '/', as a sequence of tokens
joinSlash(segs) ==
  IF segs = <<>> THEN <<>>
  ELSE IF Len(segs) = 1 THEN <<segs[1]>>
  ELSE <<segs[1], "/">> \o joinSlash(Tail(segs))

\* path.relative(dir, filePath).replace(/\\/g, '/') for dir an ancestor of filePath
relativeTo(dir, p) == joinSlash(SubSeq(p, Len(dir) + 1, Len(p)))

\* String.prototype.startsWith on token sequences
startsWith(s, pre) == Len(pre) <= Len(s) /\ SubSeq(s, 1, Len(pre)) = pre
\* String.prototype.includes on token sequences
includes(s, sub) ==
  \E i \in 1..(Len(s) + 1) :
    i + Len(sub) - 1 <= Len(s) /\ SubSeq(s, i, i + Len(sub) - 1) = sub

RECURSIVE trim(_)
\* String.prototype.trim: strips blank tokens at both ends
trim(line) ==
  IF line = <<>> THEN <<>>
  ELSE IF line[1] = " " THEN trim(Tail(line))
  ELSE IF line[Len(line)] = " " THEN trim(SubSeq(line, 1, Len(line) - 1))
  ELSE line

\* faulty variant: the trailing slash is kept
stripTrailingSlashKept(pat) == pat
\* pattern.replace(/\/$/, '')
stripTrailingSlash(pat) ==
  IF pat # <<>> /\ pat[Len(pat)] = "/" THEN SubSeq(pat, 1, Len(pat) - 1) ELSE pat

\* one pattern of the ignore file against the file's relative path
patternMatches(pattern, rel) ==
  LET normalizedPattern == stripTrailingSlash(pattern) IN
  IF normalizedPattern # <<>> /\ normalizedPattern[1] = "/"
  THEN LET pathToCheck == Tail(normalizedPattern) IN
       startsWith(rel, pathToCheck \o <<"/">>) \/ rel = pathToCheck
  ELSE \/ includes(rel, <<"/">> \o normalizedPattern \o <<"/">>)
       \/ startsWith(rel, normalizedPattern \o <<"/">>)

\* fs.existsSync(p4ignorePath): ws/.p4ignore is the one ignore file there can be
hasIgnoreFile(dir, ig) == dir = <<"ws">> /\ ig.exists

\* lines kept by .map(trim).filter(line && !line.startsWith('#'))
patternsOf(lines) ==
  SelectSeq([i \in 1..Len(lines) |-> trim(lines[i])],
            LAMBDA l : l # <<>> /\ l[1] # "#")

RECURSIVE walkUp(_, _, _)
\* the while loop: the first ignore file on the way up decides
walkUp(currentDir, filePath, ig) ==
  IF currentDir = Root THEN FALSE
  ELSE IF hasIgnoreFile(currentDir, ig)
       THEN LET pats == patternsOf(ig.lines)
                rel  == relativeTo(currentDir, filePath) IN
            \E i \in 1..Len(pats) : patternMatches(pats[i], rel)
       ELSE walkUp(dirname(currentDir), filePath, ig)

\* ig is ws/.p4ignore as the file system holds it when the event is handled
isIgnoredByP4Ignore(filePath, ig) == walkUp(dirname(filePath), filePath, ig)

\* ------------------------------------------------------- file permissions
\* stats.mode & 0o200
andOwnerWrite(mode) == ((mode \div OwnerWrite) % 2) * OwnerWrite

\* fs.statSync(document.uri.fsPath): throws for a missing file, else the
\* stats of the file, whose mode is what the file system holds at that moment
statSync(p, mode) == [ok |-> p \in files, mode |-> mode]

\* faulty variant: a file that cannot be statted counts as write-protected
isReadOnlyCatchTrue(st) ==
  IF st.ok THEN andOwnerWrite(st.mode) = 0 ELSE TRUE
\* isReadOnly: (stats.mode & 0o200) === 0, and false from the catch
isReadOnly(st) ==
  IF st.ok THEN andOwnerWrite(st.mode) = 0 ELSE FALSE

\* ------------------------------------------------------------ bookkeeping
NoEditor == [path |-> Root, scheme |-> "none"]
Editors ==
  {NoEditor} \cup {[path |-> p, scheme |-> "file"] : p \in Paths}
             \cup {[path |-> PathA, scheme |-> "untitled"]}

NoTask == [kind |-> "none", path |-> Root, pc |-> "idle", val |-> FALSE,
           shown |-> "", answer |-> "", on |-> FALSE]
\* a handler invocation: its event, where it is suspended, the value its
\* awaited promise settled to, the file name its dialog displayed, the dialog's
\* answer, and the toggle as it was when the event arrived
NewTask(kind, path, pc, val) ==
  [kind |-> kind, path |-> path, pc |-> pc, val |-> val, shown |-> "",
   answer |-> "", on |-> enabled]

E(op, path, arg) == [op |-> op, path |-> path, arg |-> arg]
Step(ev, task, arg, out) == [ev |-> ev, task |-> task, arg |-> arg, out |-> out]

InFlight == BagCardinality(waiting) + Len(microtasks)
\* the event loop takes the next macrotask only when no microtask is queued
Macrotask == microtasks = <<>>

\* what an execSync of the p4 client produces: output, no output, or a throw
ExecOutcomes == {"output", "empty", "error"}
\* faulty variant: the catch answers true
nonEmptyOrThrow(o) == o # "empty"
\* result.trim().length > 0, with the catch returning false
nonEmptyResult(o) == o = "output"

\* isInPerforceWorkspace: p4 info (its failure is swallowed), then p4 where;
\* the call is recorded with what the client produced
workspaceQuery(filePath, o) == <<E("p4 info", filePath, ""), E("p4 where", filePath, o)>>
\* faulty variant: a failing p4 where counts as inside the workspace
inWorkspaceCatchTrue(o) == o # "empty"
\* inWorkspace = result.trim().length > 0, false from the catch
isInPerforceWorkspace(o) == nonEmptyResult(o)
\* isFileInPerforce: p4 fstat
trackingQuery(filePath, o) == <<E("p4 fstat", filePath, o)>>
isFileInPerforce(o) == nonEmptyResult(o)

\* faulty variant: every answer but "No" counts as confirmation
confirmedUnlessNo(result) == result # "No"
\* result === 'Yes'
confirmed(result) == result = "Yes"

\* faulty variant: the suppression set is never consulted
dismissedNever(filePath) == FALSE
\* dismissedFiles.has(filePath)
isDismissed(filePath) == filePath \in dismissedFiles

\* faulty variant: the outstanding prompt is never consulted
promptPendingNever == FALSE
\* if (pendingPrompt)
promptPending == pendingPrompt # "null"

\* pendingDialogs.has(uri.fsPath)
dialogPending(filePath) == filePath \in pendingDialogs

\* faulty variant: the toggle as it was at activation
enabledCached == TRUE
\* config.get('enabled', true), read from the live configuration
configEnabled == enabled

\* faulty variant: the cleanup leaves the marker in place
finallySkipped(filePath) == pendingDialogs
\* finally { pendingDialogs.delete(uri.fsPath) }
finallyDelete(filePath) == pendingDialogs \ {filePath}

\* faulty variant: the timer is armed but no entry is recorded
markDismissedTimerOnly(filePath) ==
  /\ expiryTimers[filePath] < MaxTimers
  /\ expiryTimers' = [expiryTimers EXCEPT ![filePath] = @ + 1]
  /\ dismissedFiles' = dismissedFiles
\* setTimeout(() => dismissedFiles.delete(filePath), 100); dismissedFiles.set(...)
markDismissed(filePath) ==
  /\ expiryTimers[filePath] < MaxTimers
  /\ expiryTimers' = [expiryTimers EXCEPT ![filePath] = @ + 1]
  /\ dismissedFiles' = dismissedFiles \cup {filePath}

\* what ws/.p4ignore may be: missing, or a comment, a blank line and " src/"
IgnoreFiles == {"missing", "src/"}
ignoreFile(name) ==
  IF name = "missing" THEN [exists |-> FALSE, lines |-> <<>>]
  ELSE [exists |-> TRUE,
        lines |-> << <<"#", " ", "build">>, <<>>, <<" ", "src", "/">> >>]

\* ---------------------------------------------------------------- Init
Init ==
  /\ enabled = TRUE
  /\ activeEditor = NoEditor
  /\ files \in SUBSET Paths
  /\ pendingPrompt = "null"
  /\ dismissedFiles = {}
  /\ expiryTimers = [p \in Paths |-> 0]
  /\ pendingDialogs = {}
  /\ waiting = EmptyBag
  /\ microtasks = <<>>
  /\ delivering = FALSE
  /\ trace = Step("init", NoTask, "", <<>>)

\* ------------------------------------------------- the 'type' command
\* lines 204-228: the four pass-through returns
passThrough(st) ==
  IF activeEditor = NoEditor THEN TRUE
  ELSE IF activeEditor.scheme # "file" THEN TRUE
  ELSE IF ~configEnabled THEN TRUE
  ELSE ~isReadOnly(st)

\* how the trace names what the file system answered to a stat
statName(st) ==
  IF ~st.ok THEN "ENOENT" ELSE IF st.mode = ModeReadOnly THEN "0444" ELSE "0644"

\* what the handler has done when it reaches line 230: the stat of isReadOnly
statted(st) ==
  IF activeEditor # NoEditor /\ activeEditor.scheme = "file" /\ configEnabled
  THEN <<E("statSync", activeEditor.path, statName(st))>> ELSE <<>>

\* return vscode.commands.executeCommand('default:type', args)
TypePassThrough(key, mode) ==
  /\ Macrotask
  /\ LET st == statSync(activeEditor.path, mode) IN
     /\ passThrough(st)
     /\ trace' = Step("type", NoTask, key,
                      statted(st) \o <<E("default:type", activeEditor.path, key)>>)
  /\ UNCHANGED <<enabled, activeEditor, files, pendingPrompt, dismissedFiles,
                 expiryTimers, pendingDialogs, waiting, microtasks>>
  /\ UNCHANGED delivering

\* faulty variant: the two returns forward the keystroke
TypeDroppedForwards(key, mode) ==
  /\ Macrotask
  /\ LET st == statSync(activeEditor.path, mode) IN
     /\ ~passThrough(st)
     /\ isDismissed(activeEditor.path) \/ promptPending
     /\ trace' = Step("type", NoTask, key,
                      statted(st) \o <<E("default:type", activeEditor.path, key)>>)
  /\ UNCHANGED <<enabled, activeEditor, files, pendingPrompt, dismissedFiles,
                 expiryTimers, pendingDialogs, waiting, microtasks, delivering>>
\* lines 232-239: the two silent returns
TypeDropped(key, mode) ==
  /\ Macrotask
  /\ LET st == statSync(activeEditor.path, mode) IN
     /\ ~passThrough(st)
     /\ isDismissed(activeEditor.path) \/ promptPending
     /\ trace' = Step("type", NoTask, key, statted(st))
  /\ UNCHANGED <<enabled, activeEditor, files, pendingPrompt, dismissedFiles,
                 expiryTimers, pendingDialogs, waiting, microtasks>>
  /\ UNCHANGED delivering

\* lines 242-246: the async body runs up to its first await, then
\* pendingPrompt is assigned its promise
TypePrompt(key, mode, o) ==
  /\ Macrotask
  /\ InFlight < MaxTasks
  /\ LET filePath == activeEditor.path
         st == statSync(filePath, mode)
         t == NewTask("type", filePath, "afterWorkspace", isInPerforceWorkspace(o)) IN
     /\ ~passThrough(st)
     /\ ~isDismissed(filePath)
     /\ ~promptPending
     /\ microtasks' = Append(microtasks, t)
     /\ trace' = Step("type", NoTask, key, statted(st) \o workspaceQuery(filePath, o))
  /\ pendingPrompt' = "promise"
  /\ UNCHANGED <<enabled, activeEditor, files, dismissedFiles,
                 expiryTimers, pendingDialogs, waiting>>
  /\ UNCHANGED delivering

\* lines 247-264: after await isInPerforceWorkspace
TypeAfterWorkspace ==
  /\ microtasks # <<>>
  /\ LET t == Head(microtasks) IN
     /\ t.kind = "type" /\ t.pc = "afterWorkspace"
     /\ microtasks' = Tail(microtasks)
     /\ IF ~t.val
        THEN /\ markDismissed(t.path)
             /\ pendingPrompt' = "null"
             /\ trace' = Step("resume", t, "", <<E("setTimeout:100", t.path, "")>>)
             /\ UNCHANGED waiting
        ELSE /\ waiting' = waiting (+) SetToBag({[t EXCEPT !.pc = "dialog",
                                                           !.shown = fileNameOf(t.path)]})
             /\ trace' = Step("resume", t, "",
                              <<E("dialog:edit", t.path, fileNameOf(t.path))>>)
             /\ UNCHANGED <<pendingPrompt, dismissedFiles, expiryTimers>>
  /\ UNCHANGED <<enabled, activeEditor, files, pendingDialogs>>
  /\ delivering' = FALSE

\* lines 266-268 and 285-294: the edit dialog resolves
EditDialogResolved(t, result) ==
  /\ Macrotask
  /\ BagIn(t, waiting) /\ t.kind = "type" /\ t.pc = "dialog"
  /\ IF result = "throw"
     THEN /\ waiting' = waiting (-) SetToBag({t})
          /\ pendingPrompt' = "null"
          /\ trace' = Step("dialogResolved", t, result,
                           <<E("unhandledRejection", t.path, "")>>)
          /\ UNCHANGED <<dismissedFiles, expiryTimers>>
     ELSE IF confirmed(result)
     THEN /\ waiting' = (waiting (-) SetToBag({t}))
                        (+) SetToBag({[t EXCEPT !.pc = "edit1", !.answer = result]})
          /\ trace' = Step("dialogResolved", t, result,
                           <<E("perforce.edit", t.path, "")>>)
          /\ UNCHANGED <<pendingPrompt, dismissedFiles, expiryTimers>>
     ELSE /\ waiting' = waiting (-) SetToBag({t})
          /\ markDismissed(t.path)
          /\ pendingPrompt' = "null"
          /\ trace' = Step("dialogResolved", t, result,
                           <<E("setTimeout:100", t.path, "")>>)
  /\ UNCHANGED <<enabled, activeEditor, files, pendingDialogs,
                 microtasks>>
  /\ UNCHANGED delivering

\* faulty variant: the alternative command is run whether or not the primary
\* one succeeded
EditPrimaryAlwaysFallback(t, ok) ==
  /\ Macrotask
  /\ BagIn(t, waiting) /\ t.kind = "type" /\ t.pc = "edit1"
  /\ waiting' = (waiting (-) SetToBag({t})) (+) SetToBag({[t EXCEPT !.pc = "edit2"]})
  /\ trace' = Step("commandResolved", t, IF ok THEN "ok" ELSE "fail",
                   <<E("perforce.menuFunctionEdit", t.path, "")>>)
  /\ UNCHANGED <<enabled, activeEditor, files, pendingPrompt, dismissedFiles,
                 expiryTimers, pendingDialogs, microtasks, delivering>>
\* executePerforceEdit, lines 126-133: 'perforce.edit' settles
EditPrimaryResolved(t, ok) ==
  /\ Macrotask
  /\ BagIn(t, waiting) /\ t.kind = "type" /\ t.pc = "edit1"
  /\ IF ok
     THEN /\ waiting' = waiting (-) SetToBag({t})
          /\ microtasks' = Append(microtasks,
                                  [t EXCEPT !.pc = "afterCommand", !.val = TRUE])
          /\ trace' = Step("commandResolved", t, "ok", <<>>)
     ELSE /\ waiting' = (waiting (-) SetToBag({t}))
                        (+) SetToBag({[t EXCEPT !.pc = "edit2"]})
          /\ trace' = Step("commandResolved", t, "fail",
                           <<E("perforce.menuFunctionEdit", t.path, "")>>)
          /\ UNCHANGED microtasks
  /\ UNCHANGED <<enabled, activeEditor, files, pendingPrompt, dismissedFiles,
                 expiryTimers, pendingDialogs>>
  /\ UNCHANGED delivering

\* executePerforceEdit, lines 132-137: 'perforce.menuFunctionEdit' settles
EditFallbackResolved(t, ok) ==
  /\ Macrotask
  /\ BagIn(t, waiting) /\ t.kind = "type" /\ t.pc = "edit2"
  /\ waiting' = waiting (-) SetToBag({t})
  /\ microtasks' = Append(microtasks, [t EXCEPT !.pc = "afterCommand", !.val = ok])
  /\ trace' = Step("commandResolved", t, IF ok THEN "ok" ELSE "fail",
                   IF ok THEN <<>> ELSE <<E("showErrorMessage", t.path, "")>>)
  /\ UNCHANGED <<enabled, activeEditor, files, pendingPrompt, dismissedFiles,
                 expiryTimers, pendingDialogs>>
  /\ UNCHANGED delivering

\* faulty variant: the reload is never handed to the timer
reloadSkipped(filePath) == waiting
\* setTimeout(async () => { close, reopen }, 500): the callback captures the
\* document of the keystroke
scheduleReload(filePath) ==
  waiting (+) SetToBag({NewTask("reload", filePath, "timer", FALSE)})

\* lines 269-284 and 292-294: after await executePerforceEdit; on success the
\* reload callback is handed to setTimeout(..., 500)
TypeAfterEdit ==
  /\ microtasks # <<>>
  /\ LET t == Head(microtasks) IN
     /\ t.kind = "type" /\ t.pc = "afterCommand"
     /\ microtasks' = Tail(microtasks)
     /\ IF t.val
        THEN /\ dismissedFiles' = dismissedFiles \ {t.path}
             /\ waiting' = scheduleReload(t.path)
             /\ trace' = Step("resume", t, "", <<E("setTimeout:500", t.path, "")>>)
        ELSE /\ trace' = Step("resume", t, "", <<>>)
             /\ UNCHANGED <<dismissedFiles, waiting>>
  /\ pendingPrompt' = "null"
  /\ UNCHANGED <<enabled, activeEditor, files, expiryTimers, pendingDialogs>>
  /\ delivering' = FALSE

\* lines 250-252 and 287-289: the 100 ms timer fires
ExpiryFire(p) ==
  /\ Macrotask
  /\ expiryTimers[p] > 0
  /\ expiryTimers' = [expiryTimers EXCEPT ![p] = @ - 1]
  /\ dismissedFiles' = dismissedFiles \ {p}
  /\ trace' = Step("timer:100", NoTask, "", <<>>)
  /\ UNCHANGED <<enabled, activeEditor, files, pendingPrompt,
                 pendingDialogs, waiting, microtasks>>
  /\ UNCHANGED delivering

\* lines 274-283: the 500 ms timer fires; closeActiveEditor closes whichever
\* editor has the focus, vscode.open then shows the captured document; a
\* failure of either is caught and answered with an information message
RefreshFire(t, ok) ==
  /\ Macrotask
  /\ BagIn(t, waiting) /\ t.kind = "reload" /\ t.pc = "timer"
  /\ waiting' = waiting (-) SetToBag({t})
  /\ IF ok
     THEN /\ activeEditor' = [path |-> t.path, scheme |-> "file"]
          /\ trace' = Step("timer:500", t, "",
                           <<E("closeActiveEditor", activeEditor.path, ""),
                             E("vscode.open", t.path, "")>>)
     ELSE /\ trace' = Step("timer:500", t, "",
                           <<E("showInformationMessage", t.path, "")>>)
          /\ UNCHANGED activeEditor
  /\ UNCHANGED <<enabled, files, pendingPrompt, dismissedFiles, expiryTimers,
                 pendingDialogs, microtasks>>
  /\ UNCHANGED delivering

\* ------------------------------------------------- the file system watcher
\* createFileSystemWatcher('**/*', false, true, false): creations and
\* deletions are reported after the file system has changed; changes are not
FileEvents == {[kind |-> k, path |-> p] : k \in {"create", "delete"}, p \in Paths}

\* the host delivers the events of one batch back to back: a listener may be
\* called before any body of the batch's earlier events has resumed
BatchOpen == Macrotask \/ delivering

\* lines 302-306 and 363-367: the listener runs up to its first await,
\* await isIgnoredByP4Ignore(uri.fsPath)
WatcherEvent(e, ig) ==
  /\ BatchOpen
  /\ InFlight < MaxTasks
  /\ files' = IF e.kind = "create" THEN files \cup {e.path} ELSE files \ {e.path}
  /\ microtasks' = Append(microtasks,
                          NewTask(e.kind, e.path, "afterIgnore",
                                  isIgnoredByP4Ignore(e.path, ignoreFile(ig))))
  /\ delivering' = TRUE
  /\ trace' = Step("watch", NoTask, ig, <<E(e.kind, e.path, "")>>)
  /\ UNCHANGED <<enabled, activeEditor, pendingPrompt, dismissedFiles,
                 expiryTimers, pendingDialogs, waiting>>

\* a handler body returns: nothing is left of it
Return(t, out) ==
  /\ microtasks' = Tail(microtasks)
  /\ trace' = Step("resume", t, "", out)

\* a handler body awaits the next settled promise
Await(t, pc, val, out) ==
  /\ microtasks' = Append(Tail(microtasks), [t EXCEPT !.pc = pc, !.val = val])
  /\ trace' = Step("resume", t, "", out)

\* a handler body shows its modal dialog and awaits the answer
ShowDialog(t, op) ==
  /\ microtasks' = Tail(microtasks)
  /\ waiting' = waiting (+) SetToBag({[t EXCEPT !.pc = "dialog",
                                                !.shown = fileNameOf(t.path)]})
  /\ trace' = Step("resume", t, "", <<E(op, t.path, fileNameOf(t.path))>>)

\* lines 307-320 (create) and 368-381 (delete): ignore result, toggle,
\* then await isInPerforceWorkspace
AfterIgnore(kind, o) ==
  /\ microtasks # <<>>
  /\ LET t == Head(microtasks) IN
     /\ t.kind = kind /\ t.pc = "afterIgnore"
     /\ IF t.val THEN Return(t, <<>>)
        ELSE IF ~configEnabled THEN Return(t, <<>>)
        ELSE Await(t, "afterWorkspace", isInPerforceWorkspace(o), workspaceQuery(t.path, o))
  /\ UNCHANGED <<enabled, activeEditor, files, pendingPrompt, dismissedFiles,
                 expiryTimers, pendingDialogs, waiting>>
  /\ delivering' = FALSE

CreateAfterIgnore(o) == AfterIgnore("create", o)
DeleteAfterIgnore(o) == AfterIgnore("delete", o)

\* lines 321-334: workspace result, pendingDialogs.has, then await isFileInPerforce
CreateAfterWorkspace(o) ==
  /\ microtasks # <<>>
  /\ LET t == Head(microtasks) IN
     /\ t.kind = "create" /\ t.pc = "afterWorkspace"
     /\ IF ~t.val THEN Return(t, <<>>)
        ELSE IF dialogPending(t.path) THEN Return(t, <<>>)
        ELSE Await(t, "afterFstat", isFileInPerforce(o), trackingQuery(t.path, o))
  /\ UNCHANGED <<enabled, activeEditor, files, pendingPrompt, dismissedFiles,
                 expiryTimers, pendingDialogs, waiting>>
  /\ delivering' = FALSE

\* lines 335-351: tracking result, pendingDialogs.add, the add dialog
CreateAfterFstat ==
  /\ microtasks # <<>>
  /\ LET t == Head(microtasks) IN
     /\ t.kind = "create" /\ t.pc = "afterFstat"
     /\ IF t.val
        THEN Return(t, <<>>) /\ UNCHANGED <<pendingDialogs, waiting>>
        ELSE /\ pendingDialogs' = pendingDialogs \cup {t.path}
             /\ ShowDialog(t, "dialog:add")
  /\ UNCHANGED <<enabled, activeEditor, files, pendingPrompt, dismissedFiles,
                 expiryTimers>>
  /\ delivering' = FALSE

\* lines 382-388: workspace result, then await isFileInPerforce
DeleteAfterWorkspace(o) ==
  /\ microtasks # <<>>
  /\ LET t == Head(microtasks) IN
     /\ t.kind = "delete" /\ t.pc = "afterWorkspace"
     /\ IF ~t.val THEN Return(t, <<>>)
        ELSE Await(t, "afterFstat", isFileInPerforce(o), trackingQuery(t.path, o))
  /\ UNCHANGED <<enabled, activeEditor, files, pendingPrompt, dismissedFiles,
                 expiryTimers, pendingDialogs, waiting>>
  /\ delivering' = FALSE

\* lines 389-411: tracking result, pendingDialogs.has and .add, the delete dialog
DeleteAfterFstat ==
  /\ microtasks # <<>>
  /\ LET t == Head(microtasks) IN
     /\ t.kind = "delete" /\ t.pc = "afterFstat"
     /\ IF ~t.val
        THEN Return(t, <<>>) /\ UNCHANGED <<pendingDialogs, waiting>>
        ELSE IF dialogPending(t.path)
        THEN Return(t, <<>>) /\ UNCHANGED <<pendingDialogs, waiting>>
        ELSE /\ pendingDialogs' = pendingDialogs \cup {t.path}
             /\ ShowDialog(t, "dialog:delete")
  /\ UNCHANGED <<enabled, activeEditor, files, pendingPrompt, dismissedFiles,
                 expiryTimers>>
  /\ delivering' = FALSE

\* executePerforceAdd and executePerforceDelete: execSync of the client, then
\* an information message, or an error message from the catch
clientCommand(op, filePath, o) ==
  <<E(op, filePath, ""),
    E(IF o = "error" THEN "showErrorMessage" ELSE "showInformationMessage",
      filePath, "")>>

\* lines 353-359 (add) and 413-419 (delete): the dialog resolves; on 'Yes' the
\* command runs and its promise is awaited, otherwise the finally clause runs
WatcherDialogResolved(t, kind, op, result, o) ==
  /\ Macrotask
  /\ BagIn(t, waiting) /\ t.kind = kind /\ t.pc = "dialog"
  /\ waiting' = waiting (-) SetToBag({t})
  /\ IF result = "throw"
     THEN /\ pendingDialogs' = finallyDelete(t.path)
          /\ trace' = Step("dialogResolved", t, result,
                           <<E("unhandledRejection", t.path, "")>>)
          /\ UNCHANGED microtasks
     ELSE IF confirmed(result)
     THEN /\ microtasks' = Append(microtasks,
                                  [t EXCEPT !.pc = "afterCommand", !.answer = result,
                                            !.val = (o # "error")])
          /\ trace' = Step("dialogResolved", t, result, clientCommand(op, t.path, o))
          /\ UNCHANGED pendingDialogs
     ELSE /\ pendingDialogs' = finallyDelete(t.path)
          /\ trace' = Step("dialogResolved", t, result, <<>>)
          /\ UNCHANGED microtasks
  /\ UNCHANGED <<enabled, activeEditor, files, pendingPrompt, dismissedFiles,
                 expiryTimers>>
  /\ UNCHANGED delivering

AddDialogResolved(t, result, o) == WatcherDialogResolved(t, "create", "p4 add", result, o)
DeleteDialogResolved(t, result, o) ==
  WatcherDialogResolved(t, "delete", "p4 delete", result, o)

\* lines 357-359 and 417-419: after await executePerforceAdd / Delete, finally
WatcherAfterCommand ==
  /\ microtasks # <<>>
  /\ LET t == Head(microtasks) IN
     /\ t.kind \in {"create", "delete"} /\ t.pc = "afterCommand"
     /\ pendingDialogs' = finallyDelete(t.path)
     /\ Return(t, <<>>)
  /\ UNCHANGED <<enabled, activeEditor, files, pendingPrompt, dismissedFiles,
                 expiryTimers, waiting>>
  /\ delivering' = FALSE

\* ------------------------------------------------------- the environment
\* the user changes perforceExtension.enabled
SetEnabled(b) ==
  /\ Macrotask
  /\ b # enabled
  /\ enabled' = b
  /\ trace' = Step("env", NoTask, "", <<>>)
  /\ UNCHANGED <<activeEditor, files, pendingPrompt, dismissedFiles,
                 expiryTimers, pendingDialogs, waiting, microtasks>>
  /\ UNCHANGED delivering

\* the user focuses another editor, or closes the last one
FocusEditor(e) ==
  /\ Macrotask
  /\ e # activeEditor
  /\ activeEditor' = e
  /\ trace' = Step("env", NoTask, "", <<>>)
  /\ UNCHANGED <<enabled, files, pendingPrompt, dismissedFiles,
                 expiryTimers, pendingDialogs, waiting, microtasks>>
  /\ UNCHANGED delivering

Tasks == BagToSet(waiting)

Next ==
  \/ \E key \in Keys, mode \in Modes : TypePassThrough(key, mode)
  \/ \E key \in Keys, mode \in Modes : TypeDropped(key, mode)
  \/ \E key \in Keys, mode \in Modes, o \in ExecOutcomes : TypePrompt(key, mode, o)
  \/ TypeAfterWorkspace
  \/ \E t \in Tasks, result \in Results : EditDialogResolved(t, result)
  \/ \E t \in Tasks, ok \in BOOLEAN : EditPrimaryResolved(t, ok)
  \/ \E t \in Tasks, ok \in BOOLEAN : EditFallbackResolved(t, ok)
  \/ TypeAfterEdit
  \/ \E p \in Paths : ExpiryFire(p)
  \/ \E t \in Tasks, ok \in BOOLEAN : RefreshFire(t, ok)
  \/ \E e \in FileEvents, ig \in IgnoreFiles : WatcherEvent(e, ig)
  \/ \E o \in ExecOutcomes : CreateAfterIgnore(o)
  \/ \E o \in ExecOutcomes : DeleteAfterIgnore(o)
  \/ \E o \in ExecOutcomes : CreateAfterWorkspace(o)
  \/ CreateAfterFstat
  \/ \E o \in ExecOutcomes : DeleteAfterWorkspace(o)
  \/ DeleteAfterFstat
  \/ \E t \in Tasks, result \in Results, o \in ExecOutcomes : AddDialogResolved(t, result, o)
  \/ \E t \in Tasks, result \in Results, o \in ExecOutcomes : DeleteDialogResolved(t, result, o)
  \/ WatcherAfterCommand
  \/ \E b \in BOOLEAN : SetEnabled(b)
  \/ \E e \in Editors : FocusEditor(e)

Spec == Init /\ [][Next]_vars

\* the edit flow on its own: keystrokes, the edit prompt, the timers and the
\* user's changes of focus and of the toggle.  The watcher handlers share
\* neither pendingPrompt nor dismissedFiles nor the timers with it.
EditFlowNext ==
  \/ \E key \in Keys, mode \in Modes : TypePassThrough(key, mode)
  \/ \E key \in Keys, mode \in Modes : TypeDropped(key, mode)
  \/ \E key \in Keys, mode \in Modes, o \in ExecOutcomes : TypePrompt(key, mode, o)
  \/ TypeAfterWorkspace
  \/ \E t \in Tasks, result \in Results : EditDialogResolved(t, result)
  \/ \E t \in Tasks, ok \in BOOLEAN : EditPrimaryResolved(t, ok)
  \/ \E t \in Tasks, ok \in BOOLEAN : EditFallbackResolved(t, ok)
  \/ TypeAfterEdit
  \/ \E p \in Paths : ExpiryFire(p)
  \/ \E t \in Tasks, ok \in BOOLEAN : RefreshFire(t, ok)
  \/ \E b \in BOOLEAN : SetEnabled(b)
  \/ \E e \in Editors : FocusEditor(e)

\* the event loop runs every queued continuation and fires every timer that
\* is due, however many other events it has to serve
EditFlowSpec ==
  /\ Init
  /\ [][EditFlowNext]_vars
  /\ WF_vars(TypeAfterWorkspace \/ TypeAfterEdit)
  /\ \A p \in Paths : SF_vars(ExpiryFire(p))

TypeOK ==
  /\ enabled \in BOOLEAN
  /\ activeEditor \in Editors
  /\ dismissedFiles \subseteq Paths
  /\ pendingDialogs \subseteq Paths
  /\ pendingPrompt \in {"null", "promise"}
  /\ InFlight <= MaxTasks

\* ================================================================ claims
\* vocabulary of the claims
Commands == {"perforce.edit", "perforce.menuFunctionEdit", "p4 add", "p4 delete"}
Queries == {"p4 info", "p4 where", "p4 fstat"}
DialogOps == {"dialog:edit", "dialog:add", "dialog:delete"}
OutOps == {trace.out[i].op : i \in 1..Len(trace.out)}
Outs(op) == {i \in 1..Len(trace.out) : trace.out[i].op = op}
Queued == {microtasks[i] : i \in 1..Len(microtasks)}
AllTasks == Tasks \cup Queued
\* how many bodies in flight satisfy P, copies counted
InFlightCount(P(_)) ==
  BagCardinality([t \in {x \in Tasks : P(x)} |-> CopiesIn(t, waiting)])
    + Cardinality({i \in 1..Len(microtasks) : P(microtasks[i])})
\* the kind of handler a command belongs to
HandlerOf(op) ==
  IF op = "p4 add" THEN "create" ELSE IF op = "p4 delete" THEN "delete" ELSE "type"
\* the last step was a keystroke into a local file with the toggle on, and the
\* file system reported the file as st
KeystrokeInto(st) ==
  /\ trace.ev = "type"
  /\ activeEditor # NoEditor /\ activeEditor.scheme = "file" /\ enabled
  /\ trace.out # <<>> /\ trace.out[1].op = "statSync" /\ trace.out[1].arg = st
\* a file that exists and whose owner may not write it; a file that is
\* missing or writable
Protected == "0444"
Unprotected == {"0644", "ENOENT"}

\* C1: an edit, add or delete command is invoked for a path only by a handler
\* that displayed its dialog naming that path and got the answer "Yes"; a body
\* past its dialog exists only after "Yes", and any other answer runs nothing.
C1_CommandOnlyAfterYes ==
  /\ \A i \in 1..Len(trace.out) :
       trace.out[i].op \in Commands =>
         /\ trace.task.kind = HandlerOf(trace.out[i].op)
         /\ trace.task.path = trace.out[i].path
         /\ trace.task.shown = fileNameOf(trace.out[i].path)
         /\ \/ trace.ev = "dialogResolved" /\ trace.task.pc = "dialog" /\ trace.arg = "Yes"
            \/ /\ trace.out[i].op = "perforce.menuFunctionEdit"
               /\ trace.ev = "commandResolved" /\ trace.task.pc = "edit1"
               /\ trace.task.answer = "Yes"
  /\ \A t \in AllTasks :
       t.pc \in {"edit1", "edit2", "afterCommand"} =>
         t.answer = "Yes" /\ t.shown = fileNameOf(t.path)
  /\ (trace.ev = "dialogResolved" /\ trace.arg # "Yes") => OutOps \cap Commands = {}
  /\ trace.ev \in {"type", "watch", "resume", "timer:100", "timer:500", "env"} =>
       OutOps \cap Commands = {}

\* C1 witness: each of the three commands has just been invoked after a "Yes"
C1_Witness ==
  /\ trace.ev = "dialogResolved" /\ trace.arg = "Yes"
  /\ "p4 delete" \in OutOps
  /\ \E t \in Tasks : t.kind = "type" /\ t.pc = "edit2" /\ t.answer = "Yes"

\* C2: at most one edit prompt (workspace check, dialog, edit command) is in
\* flight; pendingPrompt is set exactly while it is; a keystroke into a
\* write-protected file while it is set starts nothing and shows no dialog.
C2_OneEditPrompt ==
  LET typeBody(t) == t.kind = "type" IN
  /\ InFlightCount(typeBody) <= 1
  /\ (pendingPrompt # "null") <=> (InFlightCount(typeBody) = 1)
  /\ (KeystrokeInto(Protected) /\ pendingPrompt # "null") =>
       \/ trace.out = <<E("statSync", activeEditor.path, Protected)>>
       \/ /\ microtasks # <<>>
          /\ microtasks[Len(microtasks)].kind = "type"
          /\ microtasks[Len(microtasks)].pc = "afterWorkspace"
          /\ OutOps \cap DialogOps = {}

\* C2 witness: a keystroke into a write-protected file has just been dropped
\* while the edit dialog of an earlier keystroke is outstanding
C2_Witness ==
  /\ KeystrokeInto(Protected)
  /\ trace.out = <<E("statSync", activeEditor.path, Protected)>>
  /\ activeEditor.path \notin dismissedFiles
  /\ \E t \in Tasks : t.kind = "type" /\ t.pc = "dialog"

\* C3 (as claimed): at most one add-or-delete dialog is outstanding for a path.
C3_OneDialogPerPath ==
  \A p \in Paths :
    LET dialogFor(t) == t.kind \in {"create", "delete"} /\ t.pc = "dialog" /\ t.path = p IN
    BagCardinality([t \in {x \in Tasks : dialogFor(x)} |-> CopiesIn(t, waiting)]) <= 1

\* C4: a keystroke with no active editor, a non-file document, the toggle off
\* or a file that is not write-protected is forwarded unchanged exactly once,
\* shows no dialog, runs no client command or query and starts no prompt.
C4_PassThrough ==
  (/\ trace.ev = "type"
   /\ \/ activeEditor = NoEditor
      \/ activeEditor.scheme # "file"
      \/ ~enabled
      \/ \E st \in Unprotected : KeystrokeInto(st))
  => /\ Cardinality(Outs("default:type")) = 1
     /\ trace.out[Len(trace.out)] = E("default:type", activeEditor.path, trace.arg)
     /\ OutOps \subseteq {"statSync", "default:type"}
     /\ \A i \in 1..Len(microtasks) : microtasks[i].pc # "afterWorkspace"

\* C4 witness: a keystroke into a writable file has just been forwarded while
\* an edit prompt is outstanding and a path is suppressed
C4_Witness ==
  /\ \E st \in Unprotected : KeystrokeInto(st)
  /\ "default:type" \in OutOps
  /\ pendingPrompt # "null"
  /\ dismissedFiles # {}

C6_DeclineSuppressesUntilExpiry ==
  /\ [](\A p \in Paths :
          (/\ trace.ev = "dialogResolved" /\ trace.task.kind = "type"
           /\ trace.task.path = p /\ trace.arg \in {"No", "undefined"})
          => (p \in dismissedFiles /\ expiryTimers[p] >= 1))
  /\ \A p \in Paths : (p \in dismissedFiles) ~> (p \notin dismissedFiles)
  /\ [][(/\ KeystrokeInto(Protected)'
         /\ pendingPrompt = "null"
         /\ activeEditor.path \notin dismissedFiles)
        => (/\ pendingPrompt' = "promise"
            /\ "p4 where" \in OutOps'
            /\ microtasks' # <<>>
            /\ microtasks'[Len(microtasks')].kind = "type"
            /\ microtasks'[Len(microtasks')].pc = "afterWorkspace"
            /\ microtasks'[Len(microtasks')].path = activeEditor.path)]_vars
  /\ [](( /\ trace.ev = "resume" /\ trace.task.kind = "type"
          /\ trace.task.pc = "afterWorkspace" /\ trace.task.val)
        => trace.out = <<E("dialog:edit", trace.task.path, fileNameOf(trace.task.path))>>)

\* C6 witness: the user has just dismissed the edit dialog and the path is
\* suppressed with its expiry timer pending
C6_Witness ==
  /\ trace.ev = "dialogResolved" /\ trace.task.kind = "type"
  /\ trace.arg = "undefined"
  /\ trace.task.path \in dismissedFiles
  /\ expiryTimers[trace.task.path] = 1

\* C7 (as claimed): when the delete dialog is answered "No" the file still exists.
C7_DeclinedDeleteKeepsFile ==
  (/\ trace.ev = "dialogResolved" /\ trace.task.kind = "delete" /\ trace.arg = "No")
  => trace.task.path \in files

\* C8 (as claimed): when the delete command is invoked for a path, the
\* filesystem delete of that file has not completed: the file is still there.
C8_DeleteCommandBeforeFsDelete ==
  \A i \in Outs("p4 delete") : trace.out[i].path \in files

\* C9: a marker is set only while a body of its guard is in flight, and the
\* step that completes a body (a dialog answered other than "Yes", a dialog
\* that throws, or the continuation after the command) leaves its marker clear.
C9_MarkerCleared ==
  /\ pendingPrompt # "null" => \E t \in AllTasks : t.kind = "type"
  /\ \A p \in pendingDialogs :
       \E t \in AllTasks : /\ t.kind \in {"create", "delete"} /\ t.path = p
                           /\ t.pc \in {"dialog", "afterCommand"}
  /\ (/\ trace.task.kind = "type"
      /\ \/ trace.ev = "dialogResolved" /\ trace.arg # "Yes"
         \/ trace.ev = "resume" /\ trace.task.pc = "afterCommand"
         \/ trace.ev = "resume" /\ trace.task.pc = "afterWorkspace" /\ ~trace.task.val)
     => pendingPrompt = "null"
  /\ (/\ trace.task.kind \in {"create", "delete"}
      /\ \/ trace.ev = "dialogResolved" /\ trace.arg # "Yes"
         \/ trace.ev = "resume" /\ trace.task.pc = "afterCommand")
     => trace.task.path \notin pendingDialogs

\* C9 witness: the continuation after a failed add or delete command has just
\* run its finally clause
C9_Witness ==
  /\ trace.ev = "resume" /\ trace.task.pc = "afterCommand"
  /\ trace.task.kind \in {"create", "delete"} /\ ~trace.task.val
  /\ trace.task.path \notin pendingDialogs

\* C10: a keystroke with the toggle off is forwarded without even a stat; a
\* creation or deletion event that arrived with the toggle off never gets past
\* its ignore check and runs no query, dialog or command; an event that
\* arrived with the toggle on, for a path not ignored, goes on to its
\* workspace query.
C10_ToggleReadPerEvent ==
  /\ (trace.ev = "type" /\ ~enabled) =>
       trace.out = <<E("default:type", activeEditor.path, trace.arg)>>
  /\ \A t \in AllTasks :
       (t.kind \in {"create", "delete"} /\ ~t.on) => t.pc = "afterIgnore"
  /\ (trace.ev = "resume" /\ trace.task.kind \in {"create", "delete"} /\ ~trace.task.on)
       => trace.out = <<>>
  /\ (/\ trace.ev = "resume" /\ trace.task.kind \in {"create", "delete"}
      /\ trace.task.pc = "afterIgnore" /\ trace.task.on /\ ~trace.task.val)
       => \E o \in ExecOutcomes : trace.out = workspaceQuery(trace.task.path, o)

\* C10 witness: the body of an event that arrived with the toggle off, for a
\* path not ignored, has just returned at the toggle check, after an earlier
\* event had prompted with the toggle on
C10_Witness ==
  /\ trace.ev = "resume" /\ trace.task.kind \in {"create", "delete"}
  /\ trace.task.pc = "afterIgnore" /\ ~trace.task.val /\ ~trace.task.on
  /\ trace.out = <<>>
  /\ \E t \in Tasks : t.kind \in {"create", "delete"} /\ t.pc = "dialog"

\* the step just taken resumed the body t of a handler from its await
Resumed(kind, pc) ==
  trace.ev = "resume" /\ trace.task.kind = kind /\ trace.task.pc = pc
\* the step being taken resumes the body at the head of the microtask queue
Resuming(kind, pc) ==
  /\ microtasks # <<>>
  /\ Head(microtasks).kind = kind /\ Head(microtasks).pc = pc
  /\ trace'.ev = "resume" /\ trace'.task = Head(microtasks)

\* C11: answering "No" to the add dialog invokes no command, leaves the
\* suppression set and its timers as they were and leaves the path's marker
\* clear; a creation body for a path whose marker is clear goes on to the
\* tracking query, and shows the add dialog when the path is untracked.
C11_AddDeclined ==
  /\ []((/\ trace.ev = "dialogResolved" /\ trace.task.kind = "create"
         /\ trace.arg = "No")
        => (trace.out = <<>> /\ trace.task.path \notin pendingDialogs))
  /\ [][(/\ trace'.ev = "dialogResolved" /\ trace'.task.kind = "create"
         /\ trace'.arg = "No")
        => UNCHANGED <<dismissedFiles, expiryTimers>>]_vars
  /\ [][(/\ Resuming("create", "afterWorkspace")
         /\ Head(microtasks).val
         /\ Head(microtasks).path \notin pendingDialogs)
        => \E o \in ExecOutcomes :
             trace'.out = trackingQuery(Head(microtasks).path, o)]_vars
  /\ []((Resumed("create", "afterFstat") /\ ~trace.task.val)
        => trace.out = <<E("dialog:add", trace.task.path, fileNameOf(trace.task.path))>>)

\* C11 witness: the add dialog has just been answered "No" while another
\* path is suppressed, and the created path's marker is clear
C11_Witness ==
  /\ trace.ev = "dialogResolved" /\ trace.task.kind = "create" /\ trace.arg = "No"
  /\ dismissedFiles # {}
  /\ trace.task.path \notin pendingDialogs

\* the steps a creation or deletion event can cause
WatcherKinds == {"create", "delete"}

\* C12: ws/.p4ignore holding " src/" ignores ws/src/b.txt and nothing else;
\* the listener of an event runs no client command and shows no dialog before
\* its ignore check; the body of an event on an ignored path returns at that
\* check: no query, no command, no dialog, pendingDialogs and the bodies in
\* flight left as they were.
C12_IgnoredEventDoesNothing ==
  /\ [](trace.ev = "watch" =>
          /\ OutOps \cap (Queries \cup Commands \cup DialogOps) = {}
          /\ microtasks # <<>>
          /\ LET t == microtasks[Len(microtasks)] IN
             /\ t.kind \in WatcherKinds /\ t.pc = "afterIgnore"
             /\ t.val <=> (t.path = PathB /\ trace.arg = "src/"))
  /\ []((/\ trace.ev = "resume" /\ trace.task.kind \in WatcherKinds
         /\ trace.task.pc = "afterIgnore" /\ trace.task.val)
        => trace.out = <<>>)
  /\ [][(/\ microtasks # <<>>
         /\ Head(microtasks).kind \in WatcherKinds
         /\ Head(microtasks).pc = "afterIgnore" /\ Head(microtasks).val
         /\ trace'.ev = "resume")
        => (/\ UNCHANGED <<pendingDialogs, waiting>>
            /\ microtasks' = Tail(microtasks))]_vars

\* C12 witness: the body of an event on the ignored path has just returned at
\* the ignore check while a dialog for the other path is outstanding
C12_Witness ==
  /\ trace.ev = "resume" /\ trace.task.kind \in WatcherKinds
  /\ trace.task.pc = "afterIgnore" /\ trace.task.val
  /\ trace.task.path = PathB
  /\ trace.out = <<>>
  /\ pendingDialogs = {PathA}

\* C13 (as claimed): the keystroke into the still write-protected file that
\* directly follows a "No" to its edit dialog starts the prompt again.
C13_DialogOnNextKeystroke ==
  [][(/\ trace.ev = "dialogResolved" /\ trace.task.kind = "type"
      /\ trace.arg = "No"
      /\ KeystrokeInto(Protected)'
      /\ activeEditor'.path = trace.task.path)
     => (/\ pendingPrompt' = "promise"
         /\ microtasks' # <<>>
         /\ microtasks'[Len(microtasks')].pc = "afterWorkspace")]_vars

\* C14 (as claimed): whatever command is outstanding for other paths, a
\* keystroke into a write-protected path that is not suppressed, typed while
\* no modal dialog is open, has an edit prompt in flight for that path, and a
\* creation body that finds its own path's marker clear goes on to the
\* tracking query.
C14_OnlyThatPathStuck ==
  /\ (/\ KeystrokeInto(Protected) /\ activeEditor.path \notin dismissedFiles
      /\ \A t \in Tasks : t.pc # "dialog")
       => \E t \in AllTasks : t.kind = "type" /\ t.path = activeEditor.path
  /\ (/\ Resumed("create", "afterWorkspace") /\ trace.task.val
      /\ trace.task.path \notin pendingDialogs)
       => trace.out # <<>>

\* C15: perforce.edit is invoked first, by the "Yes" step; the fallback
\* perforce.menuFunctionEdit only by the failure of perforce.edit; the body
\* resumes with success iff one of the two succeeded; when both fail an error
\* message is shown, and the body then schedules no refresh and leaves the
\* suppression set and its timers as they were.
C15_EditPrimaryThenFallback ==
  /\ []("perforce.edit" \in OutOps =>
          /\ trace.ev = "dialogResolved" /\ trace.task.kind = "type"
          /\ trace.arg = "Yes"
          /\ trace.out = <<E("perforce.edit", trace.task.path, "")>>)
  /\ []("perforce.menuFunctionEdit" \in OutOps =>
          /\ trace.ev = "commandResolved" /\ trace.task.pc = "edit1"
          /\ trace.arg = "fail"
          /\ trace.out = <<E("perforce.menuFunctionEdit", trace.task.path, "")>>)
  /\ []((trace.ev = "commandResolved" /\ trace.task.pc = "edit1" /\ trace.arg = "ok")
        => /\ trace.out = <<>>
           /\ microtasks # <<>>
           /\ microtasks[Len(microtasks)] =
                [trace.task EXCEPT !.pc = "afterCommand", !.val = TRUE])
  /\ []((trace.ev = "commandResolved" /\ trace.task.pc = "edit2")
        => /\ microtasks # <<>>
           /\ microtasks[Len(microtasks)] =
                [trace.task EXCEPT !.pc = "afterCommand", !.val = (trace.arg = "ok")]
           /\ trace.out = IF trace.arg = "ok" THEN <<>>
                          ELSE <<E("showErrorMessage", trace.task.path, "")>>)
  /\ []((Resumed("type", "afterCommand") /\ ~trace.task.val)
        => trace.out = <<>>)
  /\ [][(Resuming("type", "afterCommand") /\ ~Head(microtasks).val)
        => UNCHANGED <<dismissedFiles, expiryTimers, waiting>>]_vars

\* C15 witness: the body has just resumed after both commands failed, while
\* another path is suppressed
C15_Witness ==
  /\ Resumed("type", "afterCommand") /\ ~trace.task.val
  /\ trace.out = <<>>
  /\ dismissedFiles # {}

\* the last call of the step just taken, and the body queued last
LastOut == trace.out[Len(trace.out)]
LastQueued == microtasks[Len(microtasks)]

\* C16: an add dialog is shown only by a creation body whose tracking query
\* answered false, a delete dialog only by a deletion body whose tracking
\* query answered true; a body runs the tracking query only after its
\* workspace query answered true; and a query answers true only when the
\* client produced output: no output, or a failure, counts as false.
C16_DialogOnlyInWorkspace ==
  /\ "dialog:add" \in OutOps =>
       Resumed("create", "afterFstat") /\ ~trace.task.val
  /\ "dialog:delete" \in OutOps =>
       Resumed("delete", "afterFstat") /\ trace.task.val
  /\ \A t \in AllTasks :
       (t.kind \in WatcherKinds /\ t.pc = "dialog") =>
         (t.val <=> t.kind = "delete")
  /\ ("p4 fstat" \in OutOps) =>
       /\ trace.ev = "resume" /\ trace.task.kind \in WatcherKinds
       /\ trace.task.pc = "afterWorkspace" /\ trace.task.val
       /\ LastOut.path = trace.task.path
       /\ microtasks # <<>>
       /\ LastQueued = [trace.task EXCEPT !.pc = "afterFstat",
                                          !.val = (LastOut.arg = "output")]
  /\ (trace.ev = "resume" /\ "p4 where" \in OutOps) =>
       /\ trace.task.kind \in WatcherKinds /\ trace.task.pc = "afterIgnore"
       /\ LastOut.op = "p4 where" /\ LastOut.path = trace.task.path
       /\ microtasks # <<>>
       /\ LastQueued = [trace.task EXCEPT !.pc = "afterWorkspace",
                                          !.val = (LastOut.arg = "output")]

\* C16 witness: a deletion body whose tracking query failed has just returned
\* without a dialog, while an add dialog for the other path is outstanding
C16_Witness ==
  /\ Resumed("delete", "afterFstat") /\ ~trace.task.val
  /\ trace.out = <<>>
  /\ \E t \in Tasks : t.kind = "create" /\ t.pc = "dialog" /\ ~t.val

\* copies of reload callbacks pending for a path in a bag of bodies
Reloads(bag, p) ==
  BagCardinality([t \in {x \in BagToSet(bag) : x.kind = "reload" /\ x.path = p}
                    |-> CopiesIn(t, bag)])

\* C17: when the body resumes after an edit that succeeded, the path is not
\* in the suppression set and exactly one reload of the path is handed to the
\* 500 ms timer; no other step schedules a reload.
C17_EditSuccessClearsSuppression ==
  /\ []((Resumed("type", "afterCommand") /\ trace.task.val)
        => /\ trace.task.answer = "Yes"
           /\ trace.task.path \notin dismissedFiles
           /\ trace.out = <<E("setTimeout:500", trace.task.path, "")>>)
  /\ []("setTimeout:500" \in OutOps
        => (Resumed("type", "afterCommand") /\ trace.task.val))
  /\ [][(Resuming("type", "afterCommand") /\ Head(microtasks).val)
        => /\ BagCardinality(waiting') = BagCardinality(waiting) + 1
           /\ Reloads(waiting', Head(microtasks).path)
                = Reloads(waiting, Head(microtasks).path) + 1]_vars
  /\ [][(Reloads(waiting', PathA) > Reloads(waiting, PathA)
         \/ Reloads(waiting', PathB) > Reloads(waiting, PathB))
        => (Resuming("type", "afterCommand") /\ Head(microtasks).val)]_vars

\* C17 witness: the body has just resumed after a successful edit and its
\* reload is pending, while the other path is suppressed
C17_Witness ==
  /\ Resumed("type", "afterCommand") /\ trace.task.val
  /\ Reloads(waiting, trace.task.path) = 1
  /\ dismissedFiles # {}

\* C18 (as claimed): the editor the reload closes is the one of the document
\* the edit was confirmed for (or none, when no editor has the focus), and
\* the document it reopens is that document.
C18_RefreshClosesConfirmedDocument ==
  trace.ev = "timer:500" =>
    /\ \A i \in Outs("closeActiveEditor") :
         trace.out[i].path \in {trace.task.path, Root}
    /\ \A i \in Outs("vscode.open") : trace.out[i].path = trace.task.path

\* C19: a path is in the suppression set iff exactly one expiry timer for it
\* is pending, and never more than one is; while an edit prompt for a path is
\* in flight (the only code that adds an entry) the path has neither an entry
\* nor a live timer; and every entry is eventually removed.
C19_EntryIffOneTimer ==
  /\ [](\A p \in Paths :
          /\ expiryTimers[p] <= 1
          /\ (p \in dismissedFiles) <=> (expiryTimers[p] = 1))
  /\ [](\A t \in AllTasks :
          t.kind = "type" =>
            (t.path \notin dismissedFiles /\ expiryTimers[t.path] = 0))
  /\ \A p \in Paths : (expiryTimers[p] = 1) ~> (p \notin dismissedFiles /\ expiryTimers[p] = 0)

\* C19 witness: an expiry timer has just fired and removed its entry while
\* the entry of the other path, with its own timer, is still there
C19_Witness ==
  /\ trace.ev = "timer:100"
  /\ \E p \in Paths :
       /\ p \in dismissedFiles /\ expiryTimers[p] = 1
       /\ \E q \in Paths \ {p} : q \notin dismissedFiles /\ expiryTimers[q] = 0

\* C20: the step of a keystroke into a write-protected local file, with the
\* toggle on, does not forward the keystroke, whichever branch it takes; and
\* no later step of its prompt forwards it: only a keystroke's own step ever
\* invokes default:type.
C20_ProtectedKeystrokeNeverForwarded ==
  /\ KeystrokeInto(Protected) => "default:type" \notin OutOps
  /\ "default:type" \in OutOps =>
       /\ trace.ev = "type"
       /\ \/ activeEditor = NoEditor
          \/ activeEditor.scheme # "file"
          \/ ~enabled
          \/ \E st \in Unprotected : KeystrokeInto(st)

\* C20 witness: the body has just resumed after a successful edit and the
\* keystroke that started it is not replayed
C20_Witness ==
  /\ Resumed("type", "afterCommand") /\ trace.task.val
  /\ "default:type" \notin OutOps
  /\ activeEditor = [path |-> trace.task.path, scheme |-> "file"]

\* C21: the workspace check of a keystroke answers true only when p4 where
\* produced output; a prompt body that resumes from a check that answered
\* false shows no dialog and invokes no command: it arms the 100 ms timer,
\* adds the path to the suppression set, clears pendingPrompt and is over;
\* and a keystroke into a write-protected path that is in the set runs no
\* workspace check.
C21_OutsideWorkspaceSuppressed ==
  /\ (trace.ev = "type" /\ "p4 where" \in OutOps) =>
       /\ KeystrokeInto(Protected)
       /\ LastOut.op = "p4 where" /\ LastOut.path = activeEditor.path
       /\ microtasks # <<>>
       /\ LastQueued.kind = "type" /\ LastQueued.pc = "afterWorkspace"
       /\ LastQueued.path = activeEditor.path
       /\ LastQueued.val <=> (LastOut.arg = "output")
  /\ (Resumed("type", "afterWorkspace") /\ ~trace.task.val) =>
       /\ trace.out = <<E("setTimeout:100", trace.task.path, "")>>
       /\ trace.task.path \in dismissedFiles
       /\ expiryTimers[trace.task.path] = 1
       /\ pendingPrompt = "null"
       /\ \A t \in AllTasks : t.kind # "type"
  /\ (KeystrokeInto(Protected) /\ activeEditor.path \in dismissedFiles) =>
       OutOps \cap (Queries \cup DialogOps \cup Commands) = {}

\* C21 witness: the prompt body of a keystroke into a path outside the
\* workspace has just returned, the path suppressed and no prompt outstanding
C21_Witness ==
  /\ Resumed("type", "afterWorkspace") /\ ~trace.task.val
  /\ trace.task.path \in dismissedFiles
  /\ pendingPrompt = "null"
  /\ activeEditor = [path |-> trace.task.path, scheme |-> "file"]

\* C22 (as claimed): no step of a guard lets a rejection escape: whatever the
\* dialog or the command does, the body's promise is not rejected.
C22_ExceptionsAbsorbed ==
  "unhandledRejection" \notin OutOps
====
